---- MODULE Spec2Model ----
(***************************************************************************)
(* Model of the fingerprinting pipeline of JoseFinnder:                    *)
(*   songConverter.py    segmentation, transcription adapter, extraction   *)
(*   create_database.py  the index populator (poblar_base_de_datos)        *)
(*   query_database.py   the similarity query (obtener_vector_de_query,    *)
(*                       buscar_similares, the entry point)                *)
(*   convert_to_mp3.py   the webm to mp3 converter (convert_file, main)    *)
(* Times are in milliseconds.  A file of a working directory is named by   *)
(* its segment number i (segmento_<i>.wav, segmento_<i>_basic_pitch.mid)   *)
(* and holds a content record saying which audio it was cut from.          *)
(***************************************************************************)
EXTENDS Integers, Sequences, FiniteSets, TLC

\* ------------------------------------------------------------------ bounds
\* Windowing specification: durations 0..MaxDur, windows 1..MaxVentana,
\* hops 1..MaxPaso, at most MaxLlamadas calls into one working area.
MaxDur == 4
MaxVentana == 2
MaxPaso == 2
MaxLlamadas == 2
\* At most MaxFallos exports raise in one call.
MaxFallos == 1

\* Ingestion specification: a song is at most one window and MaxTramos hops
\* long, and the populator is run at most MaxCorridas times.
MaxTramos == 2
MaxCorridas == 2
\* The environment fails at most MaxFallas times in one behaviour (a lookup,
\* a removal, an export, an engine call, a MIDI read or a bulk write).
MaxFallas == 1

\* Pipeline specifications: a song is at most one window and MaxTramosPipe
\* hops long; failures are counted against MaxFallas.
MaxTramosPipe == 1

\* Extraction specification: a chroma matrix has at most MaxCols columns
\* and is the sum of at most MaxNotas notes.
MaxCols == 2
MaxNotas == 2

\* Converter specification: at most MaxArchivos .webm files under the
\* input directory, and the converter is run at most MaxConv times.
MaxArchivos == 3
MaxConv == 2

\* --------------------------------------------------------------- constants
\* The pitch classes of a chroma vector ("vector normalizado de 12 elementos").
NUM_CLASES == 12
DURACION_SEGMENTO_MS == 10000
PASO_MS == 5000

\* buscar_similares(vector_caracteristicas, top_k=1) of the query entry point.
TOP_K == 1

\* --------------------------------------------------------------- variables
VARIABLES
    \* ingestion specification (Spec)
    catalogo,     \* archivos_audio: the songs found, with what decoding and
                  \* transcribing them would give
    indice,       \* the entries of the collection
    corrida,      \* which run of poblar_base_de_datos this is
    pos,          \* position of ruta_cancion in archivos_audio
    pc,           \* where the run stands
    dirAudio,     \* resultados/audio_fragments
    dirMidi,      \* resultados/midi_output
    rutas,        \* rutas_segmentos of the song being processed
    vectores,     \* vectores / fragmentos of the song being processed
    etapas,       \* stages entered for the song being processed
    cuenta,       \* calls made for the song being processed
    hecho,        \* how each song of this run ended
    previas,      \* how the earlier runs ended, and the index they left
    fallas,       \* how many failures the environment has produced so far
    \* windowing specification (SpecSeg)
    sVentana,     \* duracion_ms of the calls
    sPaso,        \* paso_ms of the calls
    sArea,        \* files of dir_salida: segment number -> content
    sLlamada,     \* arguments of the last call of segmentar_audio_file
    sRutas,       \* the list it returned (segment numbers, in order)
    sExportados,  \* the segment numbers it exported
    sN,           \* calls made so far
    \* pipeline specifications (SpecPipe, SpecPar): procesar_cancion_completa
    \* called on its own, once after another or by two jobs at a time
    trabajos,     \* per job: arguments, position and locals of the call
    anterior,     \* the call that returned before the current one began
    \* adapter specification (SpecMidi)
    adaptador,    \* the last call of convertir_segmentos_a_midi
    \* extraction specification (SpecVec)
    extraccion,   \* the last call of crear_vector_caracteristicas
    \* query specification (SpecQuery)
    consulta,     \* the run of query_database.py
    \* converter specification (SpecConv)
    conversor     \* the run of convert_to_mp3.py and the files it works on

pipeVars == <<trabajos, anterior>>

segVars == <<sVentana, sPaso, sArea, sLlamada, sRutas, sExportados, sN>>

ingVars == <<catalogo, indice, corrida, pos, pc, dirAudio, dirMidi, rutas,
             vectores, etapas, cuenta, hecho, previas, fallas>>

vars == <<catalogo, indice, corrida, pos, pc, dirAudio, dirMidi, rutas,
          vectores, etapas, cuenta, hecho, previas, fallas,
          sVentana, sPaso, sArea, sLlamada, sRutas, sExportados, sN,
          trabajos, anterior, adaptador, extraccion, consulta, conversor>>

\* What the populator leaves alone.
fueraDeIng == <<segVars, pipeVars, adaptador, extraccion, consulta, conversor>>

\* ----------------------------------------------------------------- helpers
Min(a, b) == IF a < b THEN a ELSE b

Max(a, b) == IF a > b THEN a ELSE b

\* The empty function: a directory without files.
Vacio == <<>>

\* Python's range(cur, stop, step) for step > 0, as a list.
RECURSIVE Range(_, _, _)
Range(cur, stop, step) ==
    IF cur >= stop THEN <<>> ELSE <<cur>> \o Range(cur + step, stop, step)

\* [0, 1, ..., n-1] as a list.
Numeros(n) == [k \in 1..n |-> k - 1]

\* ------------------------------------------------------- windowing engine
\* A faulty variant of Indices: the stop of the range forgets the window length.
IndicesSinVentana(largo, duracion, paso) == Range(0, largo + 1, paso)

\* A faulty variant of Indices: the windows do not overlap (the step is the
\* window length).
IndicesSinSolape(largo, duracion, paso) == Range(0, largo - duracion + 1, duracion)

\* The window starts of a track of `largo` ms.
Indices(largo, duracion, paso) == Range(0, largo - duracion + 1, paso)

\* pydub's cancion[inicio:fin]: the slice is clamped to the track.
Slice(cancion, largo, inicio, fin) ==
    [cancion |-> cancion,
     inicio  |-> Min(inicio, largo),
     largo   |-> Min(fin, largo) - Min(inicio, largo)]

\* A faulty variant of Created: a segment is named by its place in the list
\* of the segments made so far, so the ones after a failed export move up.
CreatedPorCuenta(n, fallidos) == Numeros(n - Cardinality(fallidos))

\* The list `created` after the loop over the n windows: the segment
\* numbers in order, without those whose export raised.
Created(n, fallidos) == SelectSeq(Numeros(n), LAMBDA i : i \notin fallidos)

\* segmentar_audio_file: the files of dir_salida afterwards and the list
\* returned.  `fallan` are the segment numbers whose export raises, and
\* `parciales` those among them whose file was left behind truncated.
SegmentarAudioFile(area, cancion, decodable, largo, duracion, paso, overwrite, fallan, parciales) ==
    IF ~decodable \/ largo < duracion
    THEN [area |-> area, rutas |-> <<>>, exportados |-> {}]
    ELSE
      LET ind == Indices(largo, duracion, paso)
          n == Len(ind)
          expected == 0..(n - 1)
      IN  IF ~overwrite /\ \A i \in expected : i \in DOMAIN area
          THEN [area |-> area, rutas |-> Numeros(n), exportados |-> {}]
          ELSE
            LET exporta == {i \in expected : overwrite \/ i \notin DOMAIN area}
                bien == exporta \ fallan
                rotos == exporta \cap fallan \cap parciales
                corte(i) == Slice(cancion, largo, ind[i + 1], ind[i + 1] + duracion)
                area2 == [i \in DOMAIN area \cup bien \cup rotos |->
                            IF i \in bien THEN corte(i)
                            ELSE IF i \in rotos
                                 THEN [cancion |-> cancion, inicio |-> ind[i + 1], largo |-> 0]
                                 ELSE area[i]]
            IN  [area |-> area2,
                 rutas |-> Created(n, exporta \cap fallan),
                 exportados |-> bien]

\* The segment numbers a call would export: none when it returns early or
\* reuses the files present.
Exporta(area, decodable, largo, duracion, paso, overwrite) ==
    IF ~decodable \/ largo < duracion THEN {}
    ELSE LET expected == 0..(Len(Indices(largo, duracion, paso)) - 1)
         IN  IF ~overwrite /\ \A i \in expected : i \in DOMAIN area THEN {}
             ELSE {i \in expected : overwrite \/ i \notin DOMAIN area}

\* The ways the exports of one call can fail: which raise, and which of
\* those leave a truncated file behind.
Fallos(exporta) ==
    UNION {{<<f, p>> : p \in SUBSET f} :
             f \in {g \in SUBSET exporta : Cardinality(g) <= MaxFallos}}

\* The inputs of a call: an undecodable file, or a track of some length.
Entradas == {[decodable |-> FALSE, largo |-> 0]}
            \cup {[decodable |-> TRUE, largo |-> d] : d \in 0..MaxDur}

\* ------------------------------------------------------ working directories
\* A directory that does not exist.
NoDir == [existe |-> FALSE, archivos |-> Vacio]

\* What a directory can look like after shutil.rmtree raised on it: it is
\* still there, with any part of its files.
Resto(d) ==
    {[existe |-> TRUE, archivos |-> [i \in S |-> d.archivos[i]]] :
        S \in SUBSET DOMAIN d.archivos}

\* A faulty variant of Borrar: the MIDI directory is forgotten.
BorrarSoloAudio(dA, dM) ==
    {[audio |-> NoDir, midi |-> dM, fallo |-> FALSE]}
    \cup (IF dA.existe
          THEN {[audio |-> r, midi |-> dM, fallo |-> TRUE] : r \in Resto(dA)}
          ELSE {})

\* The outcomes of `if exists(dir_audio): rmtree(dir_audio)` followed by the
\* same for dir_midi inside one try: a raise skips what follows it.
Borrar(dA, dM) ==
    {[audio |-> NoDir, midi |-> NoDir, fallo |-> FALSE]}
    \cup (IF dA.existe
          THEN {[audio |-> r, midi |-> dM, fallo |-> TRUE] : r \in Resto(dA)}
          ELSE {})
    \cup (IF dM.existe
          THEN {[audio |-> NoDir, midi |-> r, fallo |-> TRUE] : r \in Resto(dM)}
          ELSE {})

\* ------------------------------------------------- transcription adapter
\* The song of the catalogue with this file name.
Cancion(cat, nombre) == CHOOSE c \in {cat[k] : k \in DOMAIN cat} : c.nombre = nombre

\* The MIDI the engine writes for a segment file: it has notes when the
\* audio of that window has, and none for a truncated file.
Transcribir(cat, wav) ==
    [cancion |-> wav.cancion,
     inicio  |-> wav.inicio,
     notas   |-> wav.largo > 0 /\ wav.inicio \in Cancion(cat, wav.cancion).notas]

\* A faulty variant of Pendientes: the MIDI files present are not looked at.
PendientesSinCache(rs, midi, overwrite) == rs

\* The segments whose MIDI is missing (all of them with overwrite).
Pendientes(rs, midi, overwrite) ==
    SelectSeq(rs, LAMBDA i : overwrite \/ i \notin DOMAIN midi)

\* convertir_segmentos_a_midi: the files of dir_midi afterwards.  The engine
\* is called once on the pending segments and writes the first `k` outputs;
\* k < Len(pendientes) is a call that raised after k outputs.
ConvertirSegmentosAMidi(cat, audio, midi, rs, overwrite, k) ==
    LET pend == Pendientes(rs, midi, overwrite)
        escritos == {pend[j] : j \in 1..Min(k, Len(pend))}
    IN  [i \in DOMAIN midi \cup escritos |->
            IF i \in escritos THEN Transcribir(cat, audio[i]) ELSE midi[i]]

\* The calls of predict_and_save one call of convertir_segmentos_a_midi
\* makes, each with the list it passes: none for an empty list of segments
\* and none when nothing is pending.
Lotes(rs, midi, overwrite) ==
    IF rs = <<>> THEN <<>>
    ELSE IF Pendientes(rs, midi, overwrite) = <<>> THEN <<>>
    ELSE <<Pendientes(rs, midi, overwrite)>>

\* crear_vector_caracteristicas: None without instruments, else the
\* normalised chroma vector of the notes, a numpy array.
Ninguno == [tipo |-> "None"]

CrearVectorCaracteristicas(m) ==
    IF ~m.notas THEN Ninguno
    ELSE [tipo |-> "ndarray", cancion |-> m.cancion, inicio |-> m.inicio]

\* extraer_vectores_de_midis over the MIDI paths of the segments `rs`:
\* missing and unreadable files are skipped, and so are the None results.
RECURSIVE ExtraerVectoresDeMidis(_, _, _)
\* A faulty variant of ExtraerVectoresDeMidis: the first unreadable file ends
\* the loop, as if the try enclosed it.
ExtraerVectoresHastaElError(rs, midi, ilegibles) ==
    LET malos == {k \in DOMAIN rs : rs[k] \in ilegibles}
        n == IF malos = {} THEN Len(rs)
             ELSE (CHOOSE k \in malos : \A m \in malos : k <= m) - 1
        buenos == SelectSeq(SubSeq(rs, 1, n),
                            LAMBDA i : /\ i \in DOMAIN midi
                                       /\ CrearVectorCaracteristicas(midi[i]) # Ninguno)
    IN  [k \in 1..Len(buenos) |-> CrearVectorCaracteristicas(midi[buenos[k]])]

ExtraerVectoresDeMidis(rs, midi, ilegibles) ==
    IF rs = <<>> THEN <<>>
    ELSE LET i == Head(rs)
             resto == ExtraerVectoresDeMidis(Tail(rs), midi, ilegibles)
         IN  IF i \notin DOMAIN midi \/ i \in ilegibles THEN resto
             ELSE IF CrearVectorCaracteristicas(midi[i]) = Ninguno THEN resto
             ELSE <<CrearVectorCaracteristicas(midi[i])>> \o resto

\* --------------------------------------------------------- index populator
\* f[clave] in Python: a dict gives the value under the key, a numpy array
\* indexed by a string raises IndexError.
Subscript(f, clave) ==
    IF f.tipo = "dict" THEN [ok |-> TRUE, valor |-> f.campos[clave]]
    ELSE [ok |-> FALSE, valor |-> "IndexError"]

\* A faulty variant of LimpiarPedido: the populator leaves limpiar at its
\* default.
LimpiarOlvidado == FALSE

\* procesar_cancion_completa(ruta_cancion, limpiar=True).
LimpiarPedido == TRUE

\* A faulty variant of Existe: the lookup filters on a key the entries do
\* not have.
ExisteOtraClave(idx, nombre) ==
    \E e \in idx : "song" \in DOMAIN e.metadata /\ e.metadata.song = nombre

\* A faulty variant of Existe: the lookup has no `where` filter.
ExisteAlguna(idx, nombre) == idx # {}

\* collection.get(where={"cancion": nombre}, limit=1)["ids"] is not empty.
Existe(idx, nombre) == \E e \in idx : e.metadata.cancion = nombre

\* The three list comprehensions over fragmentos: the records to add, or
\* the exception the first failing subscript raises.
Registros(fragmentos) ==
    LET campo(k, clave) == Subscript(fragmentos[k], clave)
    IN  IF \E k \in DOMAIN fragmentos :
              \/ ~campo(k, "id").ok
              \/ ~campo(k, "vector").ok
              \/ ~campo(k, "metadata").ok
        THEN [ok |-> FALSE, entradas |-> {}]
        ELSE [ok |-> TRUE,
              entradas |-> {[id |-> campo(k, "id").valor,
                             embedding |-> campo(k, "vector").valor,
                             metadata |-> campo(k, "metadata").valor] :
                                k \in DOMAIN fragmentos}]

\* A faulty variant of SinSegmentos: the pipeline goes on with an empty list.
SinSegmentosNunca(rs) == FALSE

\* `if not rutas_segmentos: return []` of procesar_cancion_completa.
SinSegmentos(rs) == rs = <<>>

\* ------------------------------------------------------- songs and catalogue
Nombres == <<"uno.mp3", "dos.wav">>

\* The window starts of a song of `largo` ms under the program's parameters.
Comienzos(largo) ==
    IF largo < DURACION_SEGMENTO_MS THEN {}
    ELSE {k * PASO_MS : k \in 0..((largo - DURACION_SEGMENTO_MS) \div PASO_MS)}

\* Song lengths: shorter than a window, exactly a window, and a window
\* and MaxTramos hops.
Largos == {PASO_MS} \cup {DURACION_SEGMENTO_MS + k * PASO_MS : k \in {0, MaxTramos}}

\* What a file of the catalogue can be: undecodable, or a track of some
\* length in which any of the windows has notes.
Perfiles ==
    {[decodable |-> FALSE, largo |-> 0, notas |-> {}]}
    \cup UNION {{[decodable |-> TRUE, largo |-> l, notas |-> n] :
                    n \in SUBSET Comienzos(l)} : l \in Largos}

Catalogos ==
    {[k \in DOMAIN Nombres |->
        [nombre |-> Nombres[k], decodable |-> f[k].decodable,
         largo |-> f[k].largo, notas |-> f[k].notas]] :
            f \in [DOMAIN Nombres -> Perfiles]}

\* The same for the pipeline called on its own.
LargosPipe == {PASO_MS} \cup {DURACION_SEGMENTO_MS + k * PASO_MS : k \in {0, MaxTramosPipe}}

PerfilesPipe ==
    {[decodable |-> FALSE, largo |-> 0, notas |-> {}]}
    \cup UNION {{[decodable |-> TRUE, largo |-> l, notas |-> n] :
                    n \in SUBSET Comienzos(l)} : l \in LargosPipe}

CatalogosPipe ==
    {[k \in DOMAIN Nombres |->
        [nombre |-> Nombres[k], decodable |-> f[k].decodable,
         largo |-> f[k].largo, notas |-> f[k].notas]] :
            f \in [DOMAIN Nombres -> PerfilesPipe]}

\* An entry the persistent collection already holds for a song when the
\* program starts.
EntradaPrevia(nombre) ==
    [id |-> nombre, embedding |-> "v",
     metadata |-> [cancion |-> nombre, inicio_segundos |-> 0]]

CuentaCero == [borrados |-> 0, segmentaciones |-> 0, motor |-> 0, adds |-> 0,
               falloMotor |-> FALSE]

\* ------------------------------------------------ the parts not running
\* The jobs of the pipeline specifications.
Trabajos == {1, 2}

\* A job that is not running.  `fallos` are the kinds of failure the call
\* met: "rmtree", "export", "motor" (the engine raised), "lectura".
Ocioso ==
    [pc |-> "ocioso", cancion |-> "", limpiar |-> FALSE, rutas |-> <<>>,
     vectores |-> <<>>, leidos |-> <<>>, exportados |-> {}, motor |-> 0, fallos |-> {}]

\* What is kept of a call that returned: its arguments, how many segments
\* it worked on and which kinds of failure it met.
Resumen(t) ==
    [cancion |-> t.cancion, limpiar |-> t.limpiar, segmentos |-> Len(t.rutas),
     fallos |-> t.fallos]

\* No call of procesar_cancion_completa on its own.
PipeEnReposo ==
    /\ trabajos = [j \in Trabajos |-> Ocioso]
    /\ anterior = Resumen(Ocioso)

\* No call of convertir_segmentos_a_midi on its own.
NingunaConversion ==
    [llamada |-> FALSE, rutas |-> <<>>, overwrite |-> FALSE, lotes |-> <<>>, antes |-> {}]

\* No call of crear_vector_caracteristicas on its own.
NingunaExtraccion == [n |-> 0]

\* query_database.py is not run.
NingunaConsulta == [pc |-> "reposo"]

\* convert_to_mp3.py is not run.
NingunConversor == [pc |-> "reposo"]

OtrosEnReposo ==
    /\ adaptador = NingunaConversion
    /\ extraccion = NingunaExtraccion
    /\ consulta = NingunaConsulta
    /\ conversor = NingunConversor

\* ------------------------------------------- specification of the windowing
CancionesSeg == {"a", "b"}

NingunaLlamada ==
    [cancion |-> "", decodable |-> FALSE, largo |-> 0, overwrite |-> FALSE, fallaron |-> {}]

\* The ingestion variables before any run: nothing found, nothing done.
IngEnReposo ==
    /\ catalogo = <<>>
    /\ indice = {}
    /\ corrida = 0
    /\ pos = 0
    /\ pc = "reposo"
    /\ dirAudio = NoDir
    /\ dirMidi = NoDir
    /\ rutas = <<>>
    /\ vectores = <<>>
    /\ etapas = <<>>
    /\ cuenta = CuentaCero
    /\ hecho = <<>>
    /\ previas = <<>>
    /\ fallas = 0

\* The windowing variables when segmentar_audio_file is not called on its own.
SegEnReposo ==
    /\ sVentana = DURACION_SEGMENTO_MS
    /\ sPaso = PASO_MS
    /\ sArea = Vacio
    /\ sLlamada = NingunaLlamada
    /\ sRutas = <<>>
    /\ sExportados = {}
    /\ sN = 0

SegInit ==
    /\ IngEnReposo
    /\ PipeEnReposo
    /\ OtrosEnReposo
    /\ sVentana \in 1..MaxVentana
    /\ sPaso \in 1..MaxPaso
    /\ sArea = Vacio
    /\ sLlamada = NingunaLlamada
    /\ sRutas = <<>>
    /\ sExportados = {}
    /\ sN = 0

\* One call of segmentar_audio_file into the working area.
Segmentar ==
    /\ sN < MaxLlamadas
    /\ sLlamada = NingunaLlamada
    /\ \E c \in CancionesSeg, e \in Entradas, ow \in BOOLEAN :
        \E fp \in Fallos(Exporta(sArea, e.decodable, e.largo, sVentana, sPaso, ow)) :
            LET r == SegmentarAudioFile(sArea, c, e.decodable, e.largo, sVentana, sPaso,
                                        ow, fp[1], fp[2])
            IN  /\ sArea' = r.area
                /\ sRutas' = r.rutas
                /\ sExportados' = r.exportados
                /\ sLlamada' = [cancion |-> c, decodable |-> e.decodable,
                                largo |-> e.largo, overwrite |-> ow,
                                fallaron |-> fp[1]]
    /\ sN' = sN + 1
    /\ UNCHANGED <<sVentana, sPaso>>
    /\ UNCHANGED <<ingVars, pipeVars, adaptador, extraccion, consulta, conversor>>

\* The caller is done with the returned list: the record of the last call
\* is dropped, the files stay.
Soltar ==
    /\ sLlamada # NingunaLlamada
    /\ sLlamada' = NingunaLlamada
    /\ sRutas' = <<>>
    /\ sExportados' = {}
    /\ UNCHANGED <<sVentana, sPaso, sArea, sN>>
    /\ UNCHANGED <<ingVars, pipeVars, adaptador, extraccion, consulta, conversor>>

SegNext == Segmentar \/ Soltar

SpecSeg == SegInit /\ [][SegNext]_vars

\* ------------------------------------------ specification of the ingestion
\* The program starts with the songs of the music directory and the
\* persistent collection as it is on disk (get_or_create_collection): empty,
\* or holding entries of some of the songs.  The populator itself never
\* completes a write: procesar_cancion_completa returns numpy vectors and
\* the populator subscripts them as records (see Subscript, Registros).
Init ==
    /\ SegEnReposo
    /\ PipeEnReposo
    /\ OtrosEnReposo
    /\ catalogo \in Catalogos
    /\ indice \in {{EntradaPrevia(Nombres[k]) : k \in S} : S \in SUBSET DOMAIN Nombres}
    /\ corrida = 1
    /\ pos = 1
    /\ pc = "dedup"
    /\ dirAudio = NoDir
    /\ dirMidi = NoDir
    /\ rutas = <<>>
    /\ vectores = <<>>
    /\ etapas = <<>>
    /\ cuenta = CuentaCero
    /\ hecho = <<>>
    /\ previas = <<>>
    /\ fallas = 0

\* How many more failures the environment may produce.
Presupuesto == MaxFallas - fallas

\* The failures so far and n more.
ConFallas(n, tipo) == fallas + n

\* The song of this iteration of the loop.
Actual == catalogo[pos]

\* How a song of the run ended.
Ficha(resultado, nv, et, ct) ==
    [nombre |-> Actual.nombre, resultado |-> resultado, vectores |-> nv,
     etapas |-> et, cuenta |-> ct]

\* `continue`, or the end of the loop body: on to the next song.
Siguiente(resultado, nv, et, ct) ==
    /\ hecho' = Append(hecho, Ficha(resultado, nv, et, ct))
    /\ pos' = pos + 1
    /\ pc' = IF pos + 1 > Len(catalogo) THEN "reporte" ELSE "dedup"
    /\ rutas' = <<>>
    /\ vectores' = <<>>
    /\ UNCHANGED <<catalogo, corrida, previas>>

\* An exception leaves poblar_base_de_datos: the run is over.
Abortar(et, ct, idx) ==
    /\ hecho' = Append(hecho, Ficha("excepcion", Len(vectores), et, ct))
    /\ pc' = "abortado"
    /\ previas' = Append(previas, [fin |-> "abortado", indice |-> idx])
    /\ rutas' = <<>>
    /\ vectores' = <<>>
    /\ UNCHANGED <<catalogo, corrida, pos>>

\* Lines 26-31: the de-duplication lookup, outside any try.
Dedup ==
    /\ UNCHANGED fueraDeIng
    /\ pc = "dedup"
    /\ \/ /\ Presupuesto > 0
          /\ etapas' = <<"DEDUP_CHECKED">>
          /\ cuenta' = CuentaCero
          /\ fallas' = ConFallas(1, "lookup")
          /\ Abortar(etapas', cuenta', indice)
          /\ UNCHANGED <<indice, dirAudio, dirMidi>>
       \/ /\ Existe(indice, Actual.nombre)
          /\ etapas' = <<"DEDUP_CHECKED", "SKIPPED">>
          /\ cuenta' = CuentaCero
          /\ Siguiente("omitida", 0, etapas', cuenta')
          /\ UNCHANGED <<indice, dirAudio, dirMidi, fallas>>
       \/ /\ ~Existe(indice, Actual.nombre)
          /\ etapas' = <<"DEDUP_CHECKED">>
          /\ cuenta' = CuentaCero
          /\ pc' = "limpiar_previo"
          /\ UNCHANGED <<catalogo, indice, corrida, pos, dirAudio, dirMidi, rutas,
                         vectores, hecho, previas, fallas>>

\* Lines 154-162 of procesar_cancion_completa: the working directories are
\* removed before anything else; a failure is printed and ignored.
LimpiarPrevio ==
    /\ UNCHANGED fueraDeIng
    /\ pc = "limpiar_previo"
    /\ \E r \in Borrar(dirAudio, dirMidi) :
        /\ r.fallo => Presupuesto > 0
        /\ dirAudio' = r.audio
        /\ dirMidi' = r.midi
        /\ fallas' = ConFallas(IF r.fallo THEN 1 ELSE 0, "rmtree")
    /\ etapas' = Append(etapas, "SEGMENTING")
    /\ cuenta' = [cuenta EXCEPT !.borrados =
                    @ + (IF dirAudio.existe \/ dirMidi.existe THEN 1 ELSE 0)]
    /\ pc' = "segmentar"
    /\ UNCHANGED <<catalogo, indice, corrida, pos, rutas, vectores, hecho, previas>>

\* Lines 165-168, and line 37 of the populator when nothing came back.
SegmentarPaso ==
    /\ UNCHANGED fueraDeIng
    /\ pc = "segmentar"
    /\ \E fp \in Fallos(Exporta(dirAudio.archivos, Actual.decodable, Actual.largo,
                               DURACION_SEGMENTO_MS, PASO_MS, FALSE)) :
        LET r == SegmentarAudioFile(dirAudio.archivos, Actual.nombre, Actual.decodable,
                                    Actual.largo, DURACION_SEGMENTO_MS, PASO_MS,
                                    FALSE, fp[1], fp[2])
        IN  /\ Cardinality(fp[1]) <= Presupuesto
            /\ dirAudio' = [existe |-> TRUE, archivos |-> r.area]
            /\ fallas' = ConFallas(Cardinality(fp[1]), "export")
            /\ cuenta' = [cuenta EXCEPT !.segmentaciones = @ + 1]
            /\ IF SinSegmentos(r.rutas)
               THEN Siguiente("sin_vectores", 0, etapas, cuenta')
               ELSE /\ rutas' = r.rutas
                    /\ pc' = "convertir"
                    /\ UNCHANGED <<catalogo, corrida, pos, vectores, hecho, previas>>
    /\ UNCHANGED <<indice, dirMidi, etapas>>

\* Line 171: convertir_segmentos_a_midi; the engine's exception is caught
\* and printed inside it.
ConvertirPaso ==
    /\ UNCHANGED fueraDeIng
    /\ pc = "convertir"
    /\ LET pend == Pendientes(rutas, dirMidi.archivos, FALSE)
       IN  \E k \in 0..Len(pend) :
            /\ k < Len(pend) => Presupuesto > 0
            /\ dirMidi' = [existe |-> TRUE,
                           archivos |-> ConvertirSegmentosAMidi(catalogo, dirAudio.archivos,
                                            dirMidi.archivos, rutas, FALSE, k)]
            /\ cuenta' = [cuenta EXCEPT
                            !.motor = @ + (IF pend # <<>> THEN 1 ELSE 0),
                            !.falloMotor = k < Len(pend)]
            /\ fallas' = ConFallas(IF k < Len(pend) THEN 1 ELSE 0, "motor")
    /\ etapas' = Append(etapas, "TRANSCRIBING")
    /\ pc' = "extraer"
    /\ UNCHANGED <<catalogo, indice, corrida, pos, dirAudio, rutas, vectores, hecho, previas>>

\* Lines 174-177: the MIDI paths are rebuilt from the segment list and read.
ExtraerPaso ==
    /\ UNCHANGED fueraDeIng
    /\ pc = "extraer"
    /\ \E ilegibles \in {x \in SUBSET {i \in DOMAIN dirMidi.archivos :
                                          \E k \in DOMAIN rutas : rutas[k] = i} :
                            Cardinality(x) <= Presupuesto} :
        /\ vectores' = ExtraerVectoresDeMidis(rutas, dirMidi.archivos, ilegibles)
        /\ fallas' = ConFallas(Cardinality(ilegibles), "lectura")
    /\ pc' = "limpieza"
    /\ UNCHANGED <<catalogo, indice, corrida, pos, dirAudio, dirMidi, rutas, etapas,
                   cuenta, hecho, previas>>

\* Lines 180-193 with the populator's limpiar, and line 37
\* of the populator when the list that came back is empty.
LimpiezaPaso ==
    /\ UNCHANGED fueraDeIng
    /\ pc = "limpieza"
    /\ \E r \in (IF LimpiarPedido THEN Borrar(dirAudio, dirMidi)
                ELSE {[audio |-> dirAudio, midi |-> dirMidi, fallo |-> FALSE]}) :
        /\ r.fallo => Presupuesto > 0
        /\ dirAudio' = r.audio
        /\ dirMidi' = r.midi
        /\ fallas' = ConFallas(IF r.fallo THEN 1 ELSE 0, "rmtree")
    /\ etapas' = Append(etapas, IF LimpiarPedido THEN "CLEANED" ELSE "RETAINED")
    /\ cuenta' = [cuenta EXCEPT !.borrados = @ + (IF LimpiarPedido THEN 1 ELSE 0)]
    /\ IF vectores = <<>>
       THEN Siguiente("sin_vectores", 0, etapas', cuenta')
       ELSE /\ pc' = "escribir"
            /\ UNCHANGED <<catalogo, corrida, pos, rutas, vectores, hecho, previas>>
    /\ UNCHANGED indice

\* Lines 41-53: the records are read out of fragmentos outside the try, then
\* one collection.add inside it, whose exception is printed.
EscribirPaso ==
    /\ UNCHANGED fueraDeIng
    /\ pc = "escribir"
    /\ etapas' = Append(etapas, "WRITING")
    /\ LET reg == Registros(vectores)
       IN  IF ~reg.ok
           THEN /\ cuenta' = cuenta
                /\ Abortar(etapas', cuenta', indice)
                /\ UNCHANGED <<indice, fallas>>
           ELSE \E ok \in BOOLEAN :
                /\ ~ok => Presupuesto > 0
                /\ cuenta' = [cuenta EXCEPT !.adds = @ + 1]
                /\ indice' = IF ok THEN indice \cup reg.entradas ELSE indice
                /\ fallas' = ConFallas(IF ok THEN 0 ELSE 1, "add")
                /\ Siguiente(IF ok THEN "escrita" ELSE "error_add", Len(vectores),
                             etapas', cuenta')
    /\ UNCHANGED <<dirAudio, dirMidi>>

\* Lines 56-57: the final report of the collection's size.
Reporte ==
    /\ UNCHANGED fueraDeIng
    /\ pc = "reporte"
    /\ pc' = "fin"
    /\ previas' = Append(previas, [fin |-> "fin", indice |-> indice])
    /\ UNCHANGED <<catalogo, indice, corrida, pos, dirAudio, dirMidi, rutas, vectores,
                   etapas, cuenta, hecho, fallas>>

\* The program is started again: the collection and the working directories
\* are as the last run left them.
NuevaCorrida ==
    /\ UNCHANGED fueraDeIng
    /\ pc \in {"fin", "abortado"}
    /\ corrida < MaxCorridas
    /\ corrida' = corrida + 1
    /\ pos' = 1
    /\ pc' = "dedup"
    /\ rutas' = <<>>
    /\ vectores' = <<>>
    /\ etapas' = <<>>
    /\ cuenta' = CuentaCero
    /\ hecho' = <<>>
    /\ UNCHANGED <<catalogo, indice, dirAudio, dirMidi, previas, fallas>>

Next ==
    \/ Dedup
    \/ LimpiarPrevio
    \/ SegmentarPaso
    \/ ConvertirPaso
    \/ ExtraerPaso
    \/ LimpiezaPaso
    \/ EscribirPaso
    \/ Reporte
    \/ NuevaCorrida

Spec == Init /\ [][Next]_vars

\* ------------------------------- specifications of the pipeline on its own
\* procesar_cancion_completa called directly, as the entry point of
\* songConverter.py does: SpecPipe is calls one after another on the same
\* working directories, SpecPar two calls for two songs at the same time.
\* A call is a job; its steps are the numbered steps of the function.

\* A job at the start of procesar_cancion_completa(cancion, limpiar=limpiar).
Nuevo(nombre, limpiar) ==
    [pc |-> "limpiar_previo", cancion |-> nombre, limpiar |-> limpiar, rutas |-> <<>>,
     vectores |-> <<>>, leidos |-> <<>>, exportados |-> {}, motor |-> 0, fallos |-> {}]

\* The populator's variables while the pipeline is called on its own.
SinPoblador ==
    /\ catalogo \in CatalogosPipe
    /\ indice = {}
    /\ corrida = 0
    /\ pos = 0
    /\ pc = "reposo"
    /\ dirAudio = NoDir
    /\ dirMidi = NoDir
    /\ rutas = <<>>
    /\ vectores = <<>>
    /\ etapas = <<>>
    /\ cuenta = CuentaCero
    /\ hecho = <<>>
    /\ previas = <<>>
    /\ fallas = 0

\* What a step of a job leaves alone.
fueraDePipe ==
    <<segVars, adaptador, extraccion, consulta, conversor, catalogo, indice, corrida,
      pos, pc, rutas, vectores, etapas, cuenta, hecho, previas>>

\* How many of the first pending segments have their WAV file: the engine
\* raises on the first input file that is missing.
RECURSIVE Tope(_, _)
Tope(pend, audio) ==
    IF pend = <<>> \/ Head(pend) \notin DOMAIN audio THEN 0
    ELSE 1 + Tope(Tail(pend), audio)

\* The MIDI files extraer_vectores_de_midis opens, in the order it reads them.
RECURSIVE Leidos(_, _, _)
Leidos(rs, midi, ilegibles) ==
    IF rs = <<>> THEN <<>>
    ELSE IF Head(rs) \notin DOMAIN midi \/ Head(rs) \in ilegibles
         THEN Leidos(Tail(rs), midi, ilegibles)
         ELSE <<midi[Head(rs)]>> \o Leidos(Tail(rs), midi, ilegibles)

\* Lines 154-162: the working directories are removed first.
PLimpiarPrevio(j) ==
    /\ trabajos[j].pc = "limpiar_previo"
    /\ \E r \in Borrar(dirAudio, dirMidi) :
        /\ r.fallo => Presupuesto > 0
        /\ dirAudio' = r.audio
        /\ dirMidi' = r.midi
        /\ fallas' = ConFallas(IF r.fallo THEN 1 ELSE 0, "rmtree")
        /\ trabajos' = [trabajos EXCEPT ![j].pc = "segmentar",
                                        ![j].fallos = @ \cup (IF r.fallo THEN {"rmtree"} ELSE {})]
    /\ UNCHANGED <<anterior, fueraDePipe>>

\* Lines 165-168: segmentation with the default overwrite, and the early
\* return when no segment came back.
PSegmentar(j) ==
    /\ trabajos[j].pc = "segmentar"
    /\ LET c == Cancion(catalogo, trabajos[j].cancion)
       IN  \E fp \in Fallos(Exporta(dirAudio.archivos, c.decodable, c.largo,
                                   DURACION_SEGMENTO_MS, PASO_MS, FALSE)) :
            LET r == SegmentarAudioFile(dirAudio.archivos, c.nombre, c.decodable, c.largo,
                                        DURACION_SEGMENTO_MS, PASO_MS, FALSE, fp[1], fp[2])
            IN  /\ Cardinality(fp[1]) <= Presupuesto
                /\ dirAudio' = [existe |-> TRUE, archivos |-> r.area]
                /\ fallas' = ConFallas(Cardinality(fp[1]), "export")
                /\ trabajos' = [trabajos EXCEPT
                        ![j].pc = IF SinSegmentos(r.rutas) THEN "fin" ELSE "convertir",
                        ![j].rutas = r.rutas,
                        ![j].exportados = r.exportados,
                        ![j].fallos = @ \cup (IF fp[1] # {} THEN {"export"} ELSE {})]
    /\ UNCHANGED <<dirMidi, anterior, fueraDePipe>>

\* Line 171: the adapter; the engine raises by itself on a missing input
\* file, and its exception is caught and printed.
PConvertir(j) ==
    /\ trabajos[j].pc = "convertir"
    /\ LET pend == Pendientes(trabajos[j].rutas, dirMidi.archivos, FALSE)
           tope == Tope(pend, dirAudio.archivos)
       IN  \E k \in 0..tope :
            /\ k < tope => Presupuesto > 0
            /\ dirMidi' = [existe |-> TRUE,
                           archivos |-> ConvertirSegmentosAMidi(catalogo, dirAudio.archivos,
                                            dirMidi.archivos, trabajos[j].rutas, FALSE, k)]
            /\ fallas' = ConFallas(IF k < tope THEN 1 ELSE 0, "motor")
            /\ trabajos' = [trabajos EXCEPT
                    ![j].pc = "extraer",
                    ![j].motor = @ + (IF pend # <<>> THEN 1 ELSE 0),
                    ![j].fallos = @ \cup (IF k < Len(pend) THEN {"motor"} ELSE {})]
    /\ UNCHANGED <<dirAudio, anterior, fueraDePipe>>

\* Lines 174-177: the MIDI paths are rebuilt from the segment list and read.
PExtraer(j) ==
    /\ trabajos[j].pc = "extraer"
    /\ \E ilegibles \in {x \in SUBSET {i \in DOMAIN dirMidi.archivos :
                                          \E k \in DOMAIN trabajos[j].rutas :
                                              trabajos[j].rutas[k] = i} :
                            Cardinality(x) <= Presupuesto} :
        /\ trabajos' = [trabajos EXCEPT
                ![j].pc = "limpieza",
                ![j].vectores = ExtraerVectoresDeMidis(trabajos[j].rutas, dirMidi.archivos,
                                                       ilegibles),
                ![j].leidos = Leidos(trabajos[j].rutas, dirMidi.archivos, ilegibles),
                ![j].fallos = @ \cup (IF ilegibles # {} THEN {"lectura"} ELSE {})]
        /\ fallas' = ConFallas(Cardinality(ilegibles), "lectura")
    /\ UNCHANGED <<dirAudio, dirMidi, anterior, fueraDePipe>>

\* Lines 180-193: the optional cleaning, whose exception is printed, and
\* the return of the vectors.
PLimpieza(j) ==
    /\ trabajos[j].pc = "limpieza"
    /\ \E r \in (IF trabajos[j].limpiar THEN Borrar(dirAudio, dirMidi)
                ELSE {[audio |-> dirAudio, midi |-> dirMidi, fallo |-> FALSE]}) :
        /\ r.fallo => Presupuesto > 0
        /\ dirAudio' = r.audio
        /\ dirMidi' = r.midi
        /\ fallas' = ConFallas(IF r.fallo THEN 1 ELSE 0, "rmtree")
        /\ trabajos' = [trabajos EXCEPT ![j].pc = "fin",
                                        ![j].fallos = @ \cup (IF r.fallo THEN {"rmtree"} ELSE {})]
    /\ UNCHANGED <<anterior, fueraDePipe>>

\* The function is called again after it returned, on any song and with
\* either value of limpiar; the working directories are as the call left
\* them.
OtraPasada ==
    /\ trabajos[1].pc = "fin"
    /\ anterior' = Resumen(trabajos[1])
    /\ \E k \in DOMAIN Nombres, l \in BOOLEAN :
        trabajos' = [trabajos EXCEPT ![1] = Nuevo(Nombres[k], l)]
    /\ UNCHANGED <<dirAudio, dirMidi, fallas, fueraDePipe>>

PipeInit ==
    /\ SegEnReposo
    /\ OtrosEnReposo
    /\ SinPoblador
    /\ anterior = Resumen(Ocioso)
    /\ \E k \in DOMAIN Nombres, l \in BOOLEAN :
        trabajos = [j \in Trabajos |-> IF j = 1 THEN Nuevo(Nombres[k], l) ELSE Ocioso]

PipeNext ==
    \/ PLimpiarPrevio(1)
    \/ PSegmentar(1)
    \/ PConvertir(1)
    \/ PExtraer(1)
    \/ PLimpieza(1)
    \/ OtraPasada

SpecPipe == PipeInit /\ [][PipeNext]_vars

\* Two jobs, one per song of the catalogue, started together.
ParInit ==
    /\ SegEnReposo
    /\ OtrosEnReposo
    /\ SinPoblador
    /\ anterior = Resumen(Ocioso)
    /\ \E l \in [Trabajos -> BOOLEAN] :
        trabajos = [j \in Trabajos |-> Nuevo(Nombres[j], l[j])]

ParNext ==
    \E j \in Trabajos :
        \/ PLimpiarPrevio(j)
        \/ PSegmentar(j)
        \/ PConvertir(j)
        \/ PExtraer(j)
        \/ PLimpieza(j)

SpecPar == ParInit /\ [][ParNext]_vars

\* --------------------------------------------- specification of the adapter
\* convertir_segmentos_a_midi called on its own, any number of times, on
\* the segments of the first song of the catalogue, with either value of
\* overwrite and any sub-list of the segments.  The second song plays no
\* part and is kept to one value.

\* The sub-lists of [0, ..., n-1], in order.
SubListas(n) == {SelectSeq(Numeros(n), LAMBDA i : i \in S) : S \in SUBSET (0..(n - 1))}

\* What a call of the adapter leaves alone.
fueraDeMidi ==
    <<segVars, pipeVars, extraccion, consulta, conversor, catalogo, indice, corrida,
      pos, pc, dirAudio, rutas, vectores, etapas, cuenta, hecho, previas>>

MidiInit ==
    /\ SegEnReposo
    /\ PipeEnReposo
    /\ extraccion = NingunaExtraccion
    /\ consulta = NingunaConsulta
    /\ conversor = NingunConversor
    /\ adaptador = NingunaConversion
    /\ catalogo \in {c \in CatalogosPipe : ~c[2].decodable}
    /\ indice = {}
    /\ corrida = 0
    /\ pos = 0
    /\ pc = "reposo"
    /\ dirAudio = [existe |-> TRUE,
                   archivos |-> SegmentarAudioFile(Vacio, catalogo[1].nombre,
                                    catalogo[1].decodable, catalogo[1].largo,
                                    DURACION_SEGMENTO_MS, PASO_MS, FALSE, {}, {}).area]
    /\ dirMidi = NoDir
    /\ rutas = <<>>
    /\ vectores = <<>>
    /\ etapas = <<>>
    /\ cuenta = CuentaCero
    /\ hecho = <<>>
    /\ previas = <<>>
    /\ fallas = 0

\* One call of convertir_segmentos_a_midi(rs, dir_midi, overwrite=ow).
Convertir ==
    \E rs \in SubListas(Cardinality(DOMAIN dirAudio.archivos)), ow \in BOOLEAN :
        LET pend == Pendientes(rs, dirMidi.archivos, ow)
        IN  \E k \in 0..Len(pend) :
                /\ k < Len(pend) => Presupuesto > 0
                /\ fallas' = ConFallas(IF k < Len(pend) THEN 1 ELSE 0, "motor")
                /\ dirMidi' = [existe |-> TRUE,
                               archivos |-> ConvertirSegmentosAMidi(catalogo,
                                                dirAudio.archivos, dirMidi.archivos,
                                                rs, ow, k)]
                /\ adaptador' = [llamada |-> TRUE, rutas |-> rs, overwrite |-> ow,
                                 lotes |-> Lotes(rs, dirMidi.archivos, ow),
                                 antes |-> DOMAIN dirMidi.archivos]
                /\ UNCHANGED fueraDeMidi

MidiNext == Convertir

SpecMidi == MidiInit /\ [][MidiNext]_vars

\* ----------------------------------------- specification of the extraction
\* crear_vector_caracteristicas on a PrettyMIDI object, with its arithmetic.
\* The object is given by its number of instruments, whether they hold any
\* note, and the matrix get_chroma(fs=5) returns for it: NUM_CLASES rows and
\* one column per 1/5 s up to the end of the last note, none when the notes
\* end before the first 1/5 s or there is no note.
\* A vector is num[c] / sqrt(den2.n / den2.d) in every class c, or NaN in
\* every class; a squared norm is the fraction n / d, or NaN.
Clases == 0..(NUM_CLASES - 1)

Celdas(T) == Clases \X (1..T)

\* The chroma matrix of notes that sound in the given cells.
Matriz(T, ns) ==
    [c \in Clases |-> [t \in 1..T |-> Cardinality({k \in DOMAIN ns : ns[k] = <<c, t>>})]]

\* The objects given to the function: without instruments, with an
\* instrument without notes, and with up to `notas` notes over up to `cols`
\* columns.
MidisDeEntrada(cols, notas) ==
    {[instrumentos |-> i, notas |-> FALSE, columnas |-> 0, chroma |-> Matriz(0, <<>>)] :
        i \in 0..1}
    \cup UNION {{[instrumentos |-> 1, notas |-> TRUE, columnas |-> T,
                  chroma |-> Matriz(T, ns)] :
                    ns \in UNION {[1..k -> Celdas(T)] : k \in 0..notas}} :
                        T \in 0..cols}

RECURSIVE SumaFila(_, _)
SumaFila(fila, t) == IF t = 0 THEN 0 ELSE fila[t] + SumaFila(fila, t - 1)

RECURSIVE SumaCuadrados(_, _)
SumaCuadrados(num, c) ==
    IF c < 0 THEN 0 ELSE num[c] * num[c] + SumaCuadrados(num, c - 1)

\* np.mean(vector_chroma, axis=1): the mean of no column is NaN.
Media(chroma, T) ==
    IF T = 0
    THEN [tipo |-> "ndarray", nan |-> TRUE, num |-> [c \in Clases |-> 0],
          den2 |-> [n |-> 1, d |-> 1]]
    ELSE [tipo |-> "ndarray", nan |-> FALSE,
          num |-> [c \in Clases |-> SumaFila(chroma[c], T)],
          den2 |-> [n |-> T * T, d |-> 1]]

\* np.linalg.norm(vector_promedio), squared.
Norma2(v) ==
    [nan |-> v.nan, n |-> SumaCuadrados(v.num, NUM_CLASES - 1) * v.den2.d, d |-> v.den2.n]

\* `norma > 0`: a comparison with NaN is False.
MayorQueCero(norma2) == ~norma2.nan /\ norma2.n > 0

\* vector_promedio / norma.
Dividir(v, norma2) ==
    [tipo |-> "ndarray", nan |-> v.nan \/ norma2.nan, num |-> v.num,
     den2 |-> [n |-> v.den2.n * norma2.n, d |-> v.den2.d * norma2.d]]

\* crear_vector_caracteristicas; `falla` is get_chroma (or numpy) raising.
CrearVectorDeChroma(midi, falla) ==
    IF midi.instrumentos = 0 THEN Ninguno
    ELSE IF falla THEN Ninguno
    ELSE LET vector_promedio == Media(midi.chroma, midi.columnas)
             norma2 == Norma2(vector_promedio)
         IN  IF MayorQueCero(norma2) THEN Dividir(vector_promedio, norma2)
             ELSE vector_promedio

\* What a call of crear_vector_caracteristicas leaves alone.
fueraDeVec == <<segVars, pipeVars, ingVars, adaptador, consulta, conversor>>

VecInit ==
    /\ IngEnReposo
    /\ SegEnReposo
    /\ PipeEnReposo
    /\ adaptador = NingunaConversion
    /\ consulta = NingunaConsulta
    /\ conversor = NingunConversor
    /\ extraccion = NingunaExtraccion

\* One call of crear_vector_caracteristicas.
Extraer ==
    /\ extraccion.n = 0
    /\ \E midi \in MidisDeEntrada(MaxCols, MaxNotas), falla \in BOOLEAN :
        /\ falla => midi.instrumentos > 0
        /\ extraccion' = [n |-> 1, entrada |-> midi, falla |-> falla,
                          salida |-> CrearVectorDeChroma(midi, falla)]
    /\ UNCHANGED fueraDeVec

VecNext == Extraer

SpecVec == VecInit /\ [][VecNext]_vars

\* ---------------------------------------------- specification of the query
\* One run of query_database.py.  `consulta` holds the command line, the
\* file it names, whether the collection exists, the position of the run,
\* the calls it made and how it ended (salida: -1 while running, else the
\* exit status of the process).

\* What the file named on the command line can be: missing, not decodable,
\* or a clip in which the engine finds notes or none.
Clips ==
    {[existe |-> FALSE, decodable |-> FALSE, notas |-> FALSE, cancion |-> "", inicio |-> 0],
     [existe |-> TRUE, decodable |-> FALSE, notas |-> FALSE, cancion |-> "", inicio |-> 0]}
    \cup {[existe |-> TRUE, decodable |-> TRUE, notas |-> n, cancion |-> Nombres[k],
           inicio |-> i] : n \in BOOLEAN, k \in DOMAIN Nombres, i \in {0, PASO_MS}}

\* A faulty variant of VectorAusente: the entry point searches whatever it got.
VectorAusenteNunca(v) == FALSE

\* `vector_caracteristicas is not None` of the entry point, negated.
VectorAusente(v) == v = Ninguno

\* A faulty variant of BuscarSimilares: the query vector is stored in the
\* collection before the search.
BuscarSimilaresGuardando(idx, hay, v, k, elegidos, falla) ==
    IF ~hay THEN [indice |-> idx, consultas |-> 0, resultado |-> {}, excepcion |-> FALSE]
    ELSE [indice |-> idx \cup {[id |-> "query", embedding |-> "v",
                                 metadata |-> [cancion |-> v.cancion,
                                               inicio_segundos |-> v.inicio \div 1000]]},
          consultas |-> 1, resultado |-> elegidos, excepcion |-> falla]

\* buscar_similares: without the collection it prints and returns; else it
\* sends one query for the k nearest entries, `elegidos` being the entries
\* the service ranks first.  vector_query.tolist() raises on None, and an
\* exception of the query is not caught.
BuscarSimilares(idx, hay, v, k, elegidos, falla) ==
    IF ~hay THEN [indice |-> idx, consultas |-> 0, resultado |-> {}, excepcion |-> FALSE]
    ELSE IF v.tipo # "ndarray"
         THEN [indice |-> idx, consultas |-> 0, resultado |-> {}, excepcion |-> TRUE]
         ELSE [indice |-> idx, consultas |-> 1,
               resultado |-> IF falla THEN {} ELSE elegidos, excepcion |-> falla]

\* The answers the service can give to a query for the k nearest entries.
Elegibles(idx, k) == {r \in SUBSET idx : Cardinality(r) = Min(k, Cardinality(idx))}

\* What a step of the query leaves alone.
fueraDeConsulta ==
    <<segVars, pipeVars, adaptador, extraccion, conversor, catalogo, corrida, pos, pc,
      dirAudio, dirMidi, rutas, vectores, etapas, cuenta, hecho, previas>>

QueryInit ==
    /\ SegEnReposo
    /\ PipeEnReposo
    /\ conversor = NingunConversor
    /\ adaptador = NingunaConversion
    /\ extraccion = NingunaExtraccion
    /\ catalogo = <<>>
    /\ corrida = 0
    /\ pos = 0
    /\ pc = "reposo"
    /\ dirAudio = NoDir
    /\ dirMidi = NoDir
    /\ rutas = <<>>
    /\ vectores = <<>>
    /\ etapas = <<>>
    /\ cuenta = CuentaCero
    /\ hecho = <<>>
    /\ previas = <<>>
    /\ fallas = 0
    /\ indice \in {{EntradaPrevia(Nombres[k]) : k \in S} : S \in SUBSET DOMAIN Nombres}
    /\ \E conArg \in BOOLEAN, clip \in Clips, hay \in BOOLEAN :
        /\ ~hay => indice = {}
        /\ consulta = [pc |-> "inicio", argv |-> IF conArg THEN <<"ruta">> ELSE <<>>,
                       archivo |-> clip, coleccion |-> hay, vector |-> Ninguno,
                       predicciones |-> 0, huellas |-> 0, consultas |-> 0,
                       resultado |-> {}, salida |-> -1]

\* Lines 74-82: the usage and existence checks of the entry point.
QMain ==
    /\ consulta.pc = "inicio"
    /\ consulta' = IF consulta.argv = <<>> \/ ~consulta.archivo.existe
                   THEN [consulta EXCEPT !.pc = "fin", !.salida = 1]
                   ELSE [consulta EXCEPT !.pc = "vector"]
    /\ UNCHANGED <<indice, fallas, fueraDeConsulta>>

\* Line 84 and lines 86-87 when there is no vector: obtener_vector_de_query
\* runs the engine once on the whole file; every exception inside it is
\* caught and gives None.
QVector ==
    /\ consulta.pc = "vector"
    /\ \E falla \in {"no", "predict", "chroma"} :
        LET clip == consulta.archivo
            midi == [cancion |-> clip.cancion, inicio |-> clip.inicio, notas |-> clip.notas]
            leido == clip.decodable /\ falla # "predict"
            v == IF ~leido \/ ~midi.notas \/ falla = "chroma" THEN Ninguno
                 ELSE CrearVectorCaracteristicas(midi)
        IN  /\ falla # "no" => Presupuesto > 0
            /\ falla = "chroma" => clip.decodable /\ clip.notas
            /\ falla = "predict" => clip.decodable
            /\ fallas' = ConFallas(IF falla # "no" THEN 1 ELSE 0, falla)
            /\ consulta' = [consulta EXCEPT
                    !.predicciones = @ + 1,
                    !.huellas = @ + (IF leido /\ midi.notas THEN 1 ELSE 0),
                    !.vector = v,
                    !.pc = IF VectorAusente(v) THEN "fin" ELSE "buscar",
                    !.salida = IF VectorAusente(v) THEN 0 ELSE @]
    /\ UNCHANGED <<indice, fueraDeConsulta>>

\* Line 87: buscar_similares, and the end of the process.
QBuscar ==
    /\ consulta.pc = "buscar"
    /\ \E elegidos \in Elegibles(indice, TOP_K), falla \in BOOLEAN :
        LET r == BuscarSimilares(indice, consulta.coleccion, consulta.vector, TOP_K,
                                 elegidos, falla)
        IN  /\ falla => Presupuesto > 0 /\ consulta.coleccion
            /\ fallas' = ConFallas(IF falla THEN 1 ELSE 0, "query")
            /\ indice' = r.indice
            /\ consulta' = [consulta EXCEPT
                    !.consultas = @ + r.consultas,
                    !.resultado = r.resultado,
                    !.pc = "fin",
                    !.salida = IF r.excepcion THEN 1 ELSE 0]
    /\ UNCHANGED fueraDeConsulta

QueryNext ==
    \/ QMain
    \/ QVector
    \/ QBuscar

SpecQuery == QueryInit /\ [][QueryNext]_vars

\* ------------------------------------------- specification of the converter
\* convert_to_mp3.py run on a directory tree, one run after another.  A
\* path is a record of its directory and its name without the extension.
\* The .webm files a tree can hold, in sorted order: two of them have the
\* same name in different directories.
Webms ==
    <<[dir |-> "music/a", base |-> "x"], [dir |-> "music/b", base |-> "x"],
      [dir |-> "music/c", base |-> "y"], [dir |-> "music/d", base |-> "z"]>>

\* The ones the tree of a behaviour is drawn from.
Arbol == {Webms[k] : k \in 1..Min(MaxArchivos, Len(Webms))}

\* find_webm_files: the .webm files present, deduplicated and sorted.
FindWebmFiles(fuentes) == SelectSeq(Webms, LAMBDA f : f \in fuentes)

\* Lines 83-88: the .mp3 path of a source; next to the source when outdir
\* is indir, else directly under outdir.
OutPath(in_path, mismoDir) ==
    IF mismoDir THEN [dir |-> in_path.dir, base |-> in_path.base]
    ELSE [dir |-> "music_mp3", base |-> in_path.base]

\* The outcomes of one ffmpeg call: it wrote the mp3, it ended with a
\* non-zero return code with or without a partial file left behind, or it
\* could not be started.
Ffmpeg == {"rc0", "rc1", "rc1_parcial", "no_encontrado"}

\* An .mp3 file that was there before the first run.
Previo == [de |-> [dir |-> "", base |-> ""], completo |-> TRUE]

\* convert_file: what it returns and the .mp3 files afterwards.
ConvertFile(in_path, out_path, overwrite, salidas, ffmpeg) ==
    IF out_path \in DOMAIN salidas /\ ~overwrite
    THEN [ok |-> TRUE, salidas |-> salidas]
    ELSE IF ffmpeg = "rc0"
         THEN [ok |-> TRUE,
               salidas |-> [o \in DOMAIN salidas \cup {out_path} |->
                              IF o = out_path THEN [de |-> in_path, completo |-> TRUE]
                              ELSE salidas[o]]]
         ELSE IF ffmpeg = "rc1_parcial"
              THEN [ok |-> FALSE,
                    salidas |-> [o \in DOMAIN salidas \cup {out_path} |->
                                   IF o = out_path THEN [de |-> in_path, completo |-> FALSE]
                                   ELSE salidas[o]]]
              ELSE [ok |-> FALSE, salidas |-> salidas]

\* A faulty variant of BorraFuente: the result of the conversion is not
\* looked at.
BorraFuenteSinMirar(ok, delete_source) == delete_source

\* Lines 91-93: the source is removed when the conversion returned True and
\* --delete-source was given.
BorraFuente(ok, delete_source) == ok /\ delete_source

\* A run that starts: main() up to the loop, lines 59-80.
Arranque(n, fuentes, salidas, mismoDir, overwrite, delete_source) ==
    [pc |-> IF FindWebmFiles(fuentes) = <<>> THEN "fin" ELSE "convertir",
     corrida |-> n, mismoDir |-> mismoDir, overwrite |-> overwrite,
     delete_source |-> delete_source, files |-> FindWebmFiles(fuentes), i |-> 1,
     ok |-> <<>>, successes |-> 0, failures |-> 0, fuentes |-> fuentes,
     salidas |-> salidas]

\* What the steps of the converter leave alone.
fueraDeConv == <<segVars, pipeVars, ingVars, adaptador, extraccion, consulta>>

ConvInit ==
    /\ IngEnReposo
    /\ SegEnReposo
    /\ PipeEnReposo
    /\ adaptador = NingunaConversion
    /\ extraccion = NingunaExtraccion
    /\ consulta = NingunaConsulta
    /\ \E fuentes \in SUBSET Arbol, mismoDir, overwrite, delete_source \in BOOLEAN :
        \E previos \in SUBSET {OutPath(f, mismoDir) : f \in fuentes} :
            conversor = Arranque(1, fuentes, [o \in previos |-> Previo], mismoDir,
                                 overwrite, delete_source)

\* The end of the loop body: on to the next file.
Avanza(c) ==
    [c EXCEPT !.i = @ + 1, !.pc = IF c.i + 1 > Len(c.files) THEN "fin" ELSE "convertir"]

\* Lines 82-93 and 98-99: convert_file on the next file and the counting of
\* its result.
CConvertir ==
    /\ conversor.pc = "convertir"
    /\ \E ffmpeg \in Ffmpeg :
        LET in_path == conversor.files[conversor.i]
            r == ConvertFile(in_path, OutPath(in_path, conversor.mismoDir),
                             conversor.overwrite, conversor.salidas, ffmpeg)
            c == [conversor EXCEPT !.ok = Append(@, r.ok),
                                   !.salidas = r.salidas,
                                   !.successes = @ + (IF r.ok THEN 1 ELSE 0),
                                   !.failures = @ + (IF r.ok THEN 0 ELSE 1)]
        IN  conversor' = IF BorraFuente(r.ok, conversor.delete_source)
                         THEN [c EXCEPT !.pc = "borrar"]
                         ELSE Avanza(c)
    /\ UNCHANGED fueraDeConv

\* Lines 94-97: os.remove of the source, whose exception is printed.
CBorrar ==
    /\ conversor.pc = "borrar"
    /\ \E falla \in BOOLEAN :
        conversor' = Avanza([conversor EXCEPT !.fuentes =
                        IF falla THEN @ ELSE @ \ {conversor.files[conversor.i]}])
    /\ UNCHANGED fueraDeConv

\* The converter is run again on the tree as the last run left it, with
\* any options.
COtraCorrida ==
    /\ conversor.pc = "fin"
    /\ conversor.corrida < MaxConv
    /\ \E overwrite, delete_source \in BOOLEAN :
        conversor' = Arranque(conversor.corrida + 1, conversor.fuentes, conversor.salidas,
                              conversor.mismoDir, overwrite, delete_source)
    /\ UNCHANGED fueraDeConv

ConvNext ==
    \/ CConvertir
    \/ CBorrar
    \/ COtraCorrida

SpecConv == ConvInit /\ [][ConvNext]_vars

\* ------------------------------------------------------------------ claims
\* The number of windows the windowing contract gives a track of d ms.
Esperadas(d, w, h) == Max(0, ((d - w) \div h) + 1)

\* C3: for every duration D >= 0, window W > 0 and hop H > 0 a call on a
\* decodable track returns exactly max(0, floor((D - W)/H) + 1) segments,
\* numbered in increasing order, when no export fails; the segment numbered
\* i is cut at start i*H, the last start s has s + W <= D and the next one
\* would not fit; the list is empty when D < W.
C3_VentanasYComienzos ==
    sLlamada.decodable =>
        LET d == sLlamada.largo
            n == Esperadas(d, sVentana, sPaso)
        IN  /\ sLlamada.fallaron = {} => sRutas = Numeros(n)
            /\ \A k \in 1..Len(sRutas) : sRutas[k] \in 0..(n - 1)
            /\ \A j, k \in 1..Len(sRutas) : j < k => sRutas[j] < sRutas[k]
            /\ \A i \in sExportados :
                    /\ i \in 0..(n - 1)
                    /\ sArea[i].inicio = i * sPaso
                    /\ i * sPaso + sVentana <= d
            /\ d < sVentana => sRutas = <<>>
            /\ n > 0 => (n - 1) * sPaso + sVentana <= d /\ n * sPaso + sVentana > d

\* C3 witness: a call cut at least two windows out of a track on which a
\* remainder shorter than a hop is left over, and no export failed.
C3_Witness ==
    /\ sLlamada.decodable /\ sLlamada.fallaron = {}
    /\ Len(sRutas) >= 2
    /\ Cardinality(sExportados) >= 2
    /\ (sLlamada.largo - sVentana) % sPaso # 0

\* C4: every window cut by segmentation is exactly window_ms long, lies
\* within the track and comes from the track of the call: no partial-length
\* trailing window is produced.
C4_SinSegmentosCortos ==
    \A i \in sExportados :
        /\ sArea[i].cancion = sLlamada.cancion
        /\ sArea[i].largo = sVentana
        /\ sArea[i].inicio + sArea[i].largo <= sLlamada.largo

\* C4 witness: windows were cut from a track whose length leaves a tail
\* shorter than a window after the last one.
C4_Witness ==
    /\ sExportados # {}
    /\ sLlamada.largo > sVentana
    /\ (sLlamada.largo - sVentana) % sPaso # 0

\* The entries of the collection whose metadata names this song.
EntradasDe(idx, nombre) == {e \in idx : e.metadata.cancion = nombre}

\* s is an initial part of t.
EsPrefijo(s, t) == Len(s) <= Len(t) /\ \A k \in 1..Len(s) : s[k] = t[k]

C2_EntradasPorVentana ==
    fallas = 0 =>
        \A k \in DOMAIN hecho :
            LET h == hecho[k]
                c == Cancion(catalogo, h.nombre)
                mias == EntradasDe(indice, h.nombre)
            IN  h.resultado # "omitida" =>
                    /\ Cardinality(mias) = Cardinality(c.notas)
                    /\ {e.metadata.inicio_segundos : e \in mias}
                         = {t \div 1000 : t \in c.notas}

\* C5: once the engine call for a song's batch has failed, the caller of the
\* adapter does not go on with the outputs the call left behind: no
\* fingerprint of the song is produced or handed to the write, and the index
\* holds no entry of the song.
C5_FallaDelMotorNoEscribe ==
    (pc \in {"extraer", "limpieza", "escribir"} /\ cuenta.falloMotor) =>
        /\ vectores = <<>>
        /\ pc # "escribir"
        /\ EntradasDe(indice, Actual.nombre) = {}

C7_LaCorridaTermina ==
    pc \in {"fin", "abortado"} =>
        /\ pc = "fin"
        /\ Len(hecho) = Len(catalogo)

\* C8: when the lookup of a song finds an entry carrying its file name, the
\* ingestion of that song ends with that step: nothing is removed, segmented,
\* transcribed or written, and the index and working directories are as
\* they were.
C8_OmiteLaYaIngerida ==
    [][(pc = "dedup" /\ \E e \in indice : e.metadata.cancion = catalogo[pos].nombre) =>
          /\ indice' = indice
          /\ dirAudio' = dirAudio
          /\ dirMidi' = dirMidi
          /\ cuenta' = CuentaCero
          /\ pc' \in {"dedup", "reporte", "abortado"}
          /\ pc' # "abortado" =>
                /\ pos' = pos + 1
                /\ etapas' = <<"DEDUP_CHECKED", "SKIPPED">>
                /\ hecho'[Len(hecho')].resultado = "omitida"]_vars

\* C8 witness: the first song was skipped on an entry carrying its name and
\* the run went on to process the second.
C8_Witness ==
    /\ Len(hecho) = 2
    /\ hecho[1].resultado = "omitida"
    /\ hecho[1].cuenta = CuentaCero
    /\ EntradasDe(indice, hecho[1].nombre) # {}
    /\ hecho[2].resultado # "omitida"
    /\ hecho[2].cuenta.segmentaciones = 1

OrdenDeclarado ==
    {<<"DEDUP_CHECKED", "SKIPPED">>,
     <<"DEDUP_CHECKED", "SEGMENTING", "TRANSCRIBING", "WRITING", "CLEANED">>,
     <<"DEDUP_CHECKED", "SEGMENTING", "TRANSCRIBING", "WRITING", "RETAINED">>}

\* The stage orders with the cleaning ahead of the writing.
OrdenDelCodigo ==
    {<<"DEDUP_CHECKED", "SKIPPED">>,
     <<"DEDUP_CHECKED", "SEGMENTING", "TRANSCRIBING", "CLEANED", "WRITING">>}

\* C10 as stated: the stages of one ingestion follow NOT_STARTED ->
\* DEDUP_CHECKED -> (SKIPPED | SEGMENTING -> TRANSCRIBING -> WRITING ->
\* (CLEANED | RETAINED)): the write comes before the cleaning.
C10_OrdenDeclarado ==
    \E o \in OrdenDeclarado : EsPrefijo(etapas, o)

\* C10 amended: the stages of one ingestion follow NOT_STARTED ->
\* DEDUP_CHECKED -> (SKIPPED | SEGMENTING -> TRANSCRIBING -> CLEANED ->
\* WRITING): the artifacts are cleaned after the transcription and before
\* the writing stage, no stage is entered twice and at most one bulk write is
\* issued per song per run.
C10_OrdenDelCodigo ==
    /\ \E o \in OrdenDelCodigo : EsPrefijo(etapas, o)
    /\ cuenta.adds <= 1
    /\ \A k \in DOMAIN hecho :
        /\ \E o \in OrdenDelCodigo : EsPrefijo(hecho[k].etapas, o)
        /\ hecho[k].cuenta.adds <= 1

\* C10 witness: an ingestion went through every stage up to the writing.
C10_Witness ==
    etapas = <<"DEDUP_CHECKED", "SEGMENTING", "TRANSCRIBING", "CLEANED", "WRITING">>

\* The fingerprints procesar_cancion_completa returns for a song when it
\* runs alone on empty working directories and nothing fails.
Solo(c) ==
    LET seg == SegmentarAudioFile(Vacio, c.nombre, c.decodable, c.largo,
                                  DURACION_SEGMENTO_MS, PASO_MS, FALSE, {}, {})
        midi == ConvertirSegmentosAMidi(catalogo, seg.area, Vacio, seg.rutas, FALSE,
                                        Len(seg.rutas))
    IN  ExtraerVectoresDeMidis(seg.rutas, midi, {})

\* The audio of the song cannot be decoded or is shorter than one window.
NoSegmentable(c) == ~c.decodable \/ c.largo < DURACION_SEGMENTO_MS

\* C11: when the audio of a song cannot be decoded or is shorter than one
\* window, its ingestion ends at the segmenting stage with 0 fingerprints,
\* without an engine call and without an index write, the index holds no
\* entry of it, and the run goes on (it does not end with an exception).
C11_ParadaAlSegmentar ==
    /\ pc \in {"convertir", "extraer", "limpieza", "escribir"} => ~NoSegmentable(Actual)
    /\ \A k \in DOMAIN hecho :
        LET h == hecho[k]
        IN  (h.cuenta.segmentaciones = 1 /\ NoSegmentable(Cancion(catalogo, h.nombre))) =>
                /\ h.resultado = "sin_vectores"
                /\ h.vectores = 0
                /\ h.cuenta.motor = 0
                /\ h.cuenta.adds = 0
                /\ h.etapas = <<"DEDUP_CHECKED", "SEGMENTING">>
                /\ EntradasDe(indice, h.nombre) = {}
                /\ k = Len(hecho) => pc # "abortado"

\* C11 witness: the first song could not be segmented (one run with an
\* undecodable file, one with a short track) and the run went on to
\* segment the second song.
C11_Witness ==
    /\ Len(hecho) = 2
    /\ hecho[1].cuenta.segmentaciones = 1
    /\ NoSegmentable(catalogo[1])
    /\ hecho[1].resultado = "sin_vectores"
    /\ hecho[2].cuenta.segmentaciones = 1

\* C12: when the jobs of two different songs run at the same time and no
\* step is made to fail, each job returns exactly the fingerprints its song
\* gets when it runs alone, and every transcription it read was made from
\* its own song.
C12_TrabajosIndependientes ==
    \A j \in Trabajos :
        (trabajos[j].pc = "fin" /\ fallas = 0) =>
            /\ trabajos[j].vectores = Solo(Cancion(catalogo, trabajos[j].cancion))
            /\ \A k \in DOMAIN trabajos[j].leidos :
                    trabajos[j].leidos[k].cancion = trabajos[j].cancion

\* The working areas hold no file.
AreasVacias == dirAudio.archivos = Vacio /\ dirMidi.archivos = Vacio

\* The segments of the call are in the audio area, and so are their
\* transcriptions in the MIDI area unless the engine raised.
Conservado(t) ==
    /\ \A k \in DOMAIN t.rutas : t.rutas[k] \in DOMAIN dirAudio.archivos
    /\ t.rutas # <<>> =>
        /\ dirMidi.existe
        /\ "motor" \notin t.fallos =>
                \A k \in DOMAIN t.rutas : t.rutas[k] \in DOMAIN dirMidi.archivos

C20_ReusaLoRetenido ==
    (/\ trabajos[1].pc = "fin"
     /\ anterior.cancion = trabajos[1].cancion
     /\ ~anterior.limpiar
     /\ anterior.segmentos > 0
     /\ fallas = 0) =>
        /\ trabajos[1].exportados = {}
        /\ trabajos[1].motor = 0

\* C14: a query on a clip in which the engine detects no note ends with an
\* empty result and exit status 0 (not an error), and sends no
\* nearest-neighbour request to the index.
C14_ConsultaSinNotas ==
    (/\ consulta.pc = "fin"
     /\ consulta.argv # <<>>
     /\ consulta.archivo.existe
     /\ consulta.archivo.decodable
     /\ ~consulta.archivo.notas) =>
        /\ consulta.resultado = {}
        /\ consulta.salida = 0
        /\ consulta.consultas = 0

\* C14 witness: a query on a clip without notes has ended while the
\* collection held entries a search would have returned.
C14_Witness ==
    /\ consulta.pc = "fin"
    /\ consulta.argv # <<>>
    /\ consulta.archivo.decodable
    /\ ~consulta.archivo.notas
    /\ consulta.predicciones = 1
    /\ consulta.coleccion
    /\ indice # {}

\* C15: a query runs the engine once on the whole clip, computes at most one
\* fingerprint, exactly one when it sends a request, sends at most one
\* nearest-neighbour request, and no step of it changes the entries of the
\* index.
C15_ConsultaSoloLee ==
    [][/\ indice' = indice
       /\ consulta'.predicciones <= 1
       /\ consulta'.huellas <= 1
       /\ consulta'.consultas <= 1
       /\ consulta'.consultas = 1 =>
            consulta'.predicciones = 1 /\ consulta'.huellas = 1]_vars

\* C15 witness: a query sent its request to a collection holding more
\* entries than it asked for and got an answer.
C15_Witness ==
    /\ consulta.pc = "fin"
    /\ consulta.consultas = 1
    /\ Cardinality(indice) > TOP_K
    /\ consulta.resultado # {}

\* C16: the query entry point ends with a non-zero exit status whenever the
\* file it is given is missing or cannot be decoded, and does not query the
\* index then.
C16_SalidaNoCero ==
    (/\ consulta.pc = "fin"
     /\ consulta.argv # <<>>
     /\ (~consulta.archivo.existe \/ ~consulta.archivo.decodable)) =>
        /\ consulta.salida # 0
        /\ consulta.consultas = 0

\* The vector is exactly zero in every class.
EsCero(v) == v.tipo = "ndarray" /\ ~v.nan /\ \A c \in Clases : v.num[c] = 0

\* The vector has L2 norm 1: the squares of its classes add up to 1.
NormaUno(v) ==
    /\ v.tipo = "ndarray"
    /\ ~v.nan
    /\ v.den2.n > 0
    /\ SumaCuadrados(v.num, NUM_CLASES - 1) * v.den2.d = v.den2.n

\* C17: extraction returns 'absent' when there is no note; otherwise, when
\* the computation does not raise, it returns a vector of 12 classes that is
\* exactly zero when the energy of the notes is zero and has L2 norm 1 when
\* it is not.
C17_CasosDeExtraccion ==
    (extraccion.n = 1 /\ ~extraccion.falla) =>
        LET m == extraccion.entrada
            v == extraccion.salida
            energia == \E c \in Clases : \E t \in 1..m.columnas : m.chroma[c][t] > 0
        IN  IF ~m.notas THEN v = Ninguno
            ELSE /\ v.tipo = "ndarray"
                 /\ DOMAIN v.num = Clases
                 /\ IF energia THEN NormaUno(v) ELSE EsCero(v)

\* C18: for any sequence of segmentation calls into the same working area
\* without overwrite, a call in which no export fails returns, for its
\* song, the song's own windows: as many as the track gives, each file
\* holding the window of that song at its index, as a call into an empty
\* area would return.
C18_CacheNoCambiaResultado ==
    (/\ sLlamada # NingunaLlamada
     /\ sLlamada.decodable
     /\ ~sLlamada.overwrite
     /\ sLlamada.fallaron = {}) =>
        /\ sRutas = Numeros(Esperadas(sLlamada.largo, sVentana, sPaso))
        /\ \A k \in DOMAIN sRutas :
            sArea[sRutas[k]] = [cancion |-> sLlamada.cancion,
                                inicio |-> sRutas[k] * sPaso,
                                largo |-> sVentana]

\* C19: one call of the adapter calls the engine at most once; the call
\* is made with exactly the segments of the list that had no transcription
\* before it (all of them with overwrite), in the order of the list, and
\* there is no call when the list is empty or every segment had one.
C19_UnLotePorLlamada ==
    adaptador.llamada =>
        LET cubre(i) == adaptador.overwrite \/ i \notin adaptador.antes
            faltan == {i \in {adaptador.rutas[k] : k \in DOMAIN adaptador.rutas} : cubre(i)}
        IN  /\ Len(adaptador.lotes) <= 1
            /\ Len(adaptador.lotes) = 0 <=> faltan = {}
            /\ \A n \in DOMAIN adaptador.lotes :
                LET lote == adaptador.lotes[n]
                IN  /\ {lote[k] : k \in DOMAIN lote} = faltan
                    /\ Len(lote) = Cardinality(faltan)
                    /\ \A a, b \in DOMAIN lote : a < b => lote[a] < lote[b]

\* C19 witness: a call without overwrite on a list of which some segments
\* had a transcription and some had not, and the engine got the latter.
C19_Witness ==
    /\ adaptador.llamada
    /\ ~adaptador.overwrite
    /\ Len(adaptador.lotes) = 1
    /\ Len(adaptador.lotes[1]) < Len(adaptador.rutas)

\* ---------------------------------------------------------------- C21
\* The fingerprints of the segments `rs`, those of `fuera` left out, read
\* without any error from the files of `midi`, in the order of `rs`.
DeLosDemas(rs, midi, fuera) ==
    LET buenos == SelectSeq(rs, LAMBDA i : /\ i \notin fuera
                                           /\ CrearVectorCaracteristicas(midi[i]) # Ninguno)
    IN  [k \in 1..Len(buenos) |-> CrearVectorCaracteristicas(midi[buenos[k]])]

\* The segments of `rs` whose MIDI file is not in the directory.
SinArchivo(rs, midi) == {rs[k] : k \in DOMAIN rs} \ DOMAIN midi

\* C21: a read error or a missing file leaves out that segment alone.  The
\* extraction step returns, in segment order, the fingerprints an error-free
\* read gives for the segments other than the missing ones and the ones
\* whose read failed in this step (as many as the failures of the step).
C21_ErroresDeLecturaLocales ==
    [][(pc = "extraer" /\ pc' = "limpieza") =>
        \E il \in SUBSET ({rutas[k] : k \in DOMAIN rutas} \cap DOMAIN dirMidi.archivos) :
            /\ Cardinality(il) = fallas' - fallas
            /\ vectores' = DeLosDemas(rutas, dirMidi.archivos,
                                      il \cup SinArchivo(rutas, dirMidi.archivos))]_vars

\* Several segments with notes were transcribed, the read of the first
\* failed and the fingerprints of the others came back.
C21_Witness ==
    /\ pc = "limpieza"
    /\ Len(rutas) >= 2
    /\ \A k \in DOMAIN rutas : /\ rutas[k] \in DOMAIN dirMidi.archivos
                                /\ dirMidi.archivos[rutas[k]].notas
    /\ vectores = DeLosDemas(rutas, dirMidi.archivos, {rutas[1]})

\* ---------------------------------------------------------------- C22
\* C22: in calls made one after another, every MIDI file read while
\* fingerprinting a song was transcribed from a segment of that song, also
\* when the removal of the working directories at the start of the call
\* failed.
C22_SinContaminacion ==
    \A k \in DOMAIN trabajos[1].leidos :
        trabajos[1].leidos[k].cancion = trabajos[1].cancion

\* ---------------------------------------------------------------- C23
\* The song whose iteration a step has just ended, and how it ended.
UltimaFicha == hecho'[Len(hecho')]

\* C23: the duplicate check skips a song only when the index holds an entry
\* of it, and the index gets entries only by a write that succeeded; a song
\* whose iteration ended without fingerprints or with a failed write has no
\* entry afterwards, and a song without an entry is processed from the
\* start by the run that looks it up (unless the lookup itself raises).
C23_OmiteSoloLoEscrito ==
    [][/\ (pc = "dedup" /\ pos' = pos + 1) => EntradasDe(indice, Actual.nombre) # {}
       /\ (pc = "dedup" /\ EntradasDe(indice, Actual.nombre) = {} /\ pc' # "abortado")
            => (pc' = "limpiar_previo" /\ pos' = pos)
       /\ indice' # indice => (pc = "escribir" /\ UltimaFicha.resultado = "escrita")
       /\ (/\ Len(hecho') = Len(hecho) + 1
           /\ UltimaFicha.resultado \in {"sin_vectores", "error_add"})
            => EntradasDe(indice', UltimaFicha.nombre) = {}]_vars

\* In a second run, after a first that went through the whole catalogue,
\* the full processing of an undecodable song starts again.
C23_Witness ==
    /\ corrida = 2
    /\ previas[1].fin = "fin"
    /\ pc = "limpiar_previo"
    /\ ~Actual.decodable
    /\ EntradasDe(indice, Actual.nombre) = {}

\* ---------------------------------------------------------------- C24
\* What the call a Segmentar step makes would give if no export failed.
SinFallar ==
    SegmentarAudioFile(sArea, sLlamada'.cancion, sLlamada'.decodable, sLlamada'.largo,
                       sVentana, sPaso, sLlamada'.overwrite, {}, {})

\* C24: every file of the working area with number i was cut at i * paso,
\* and the ones a call exported hold that whole window of its song; a
\* call in which exports fail returns the list it would return otherwise
\* without the failed windows, the other segments under the same numbers
\* and with the same contents.
C24_NumeracionEstable ==
    [][sN' = sN + 1 =>
        /\ \A i \in DOMAIN sArea' : sArea'[i].inicio = i * sPaso
        /\ \A i \in sExportados' :
             sArea'[i] = [cancion |-> sLlamada'.cancion, inicio |-> i * sPaso,
                          largo |-> sVentana]
        /\ sRutas' = SelectSeq(SinFallar.rutas, LAMBDA i : i \notin sLlamada'.fallaron)
        /\ \A k \in DOMAIN sRutas' : sArea'[sRutas'[k]] = SinFallar.area[sRutas'[k]]]_vars

\* The export of the first window failed and later windows were returned
\* under their own numbers.
C24_Witness ==
    /\ sLlamada # NingunaLlamada
    /\ sLlamada.fallaron = {0}
    /\ Len(sRutas) >= 2
    /\ sRutas[1] = 1
    /\ sExportados = {sRutas[k] : k \in DOMAIN sRutas}

\* ---------------------------------------------------------------- C25
\* C25: a step removes a source file only when --delete-source was given,
\* the file is the one of the current iteration and convert_file returned
\* True for it in this run; a file whose conversion returned False in this
\* run is still there, and a run without the option removes nothing.
C25_BorraSoloLoConvertido ==
    [][/\ conversor.pc # "reposo"
       /\ conversor'.corrida = conversor.corrida
       =>
       /\ \A f \in conversor.fuentes \ conversor'.fuentes :
            /\ conversor.delete_source
            /\ conversor.pc = "borrar"
            /\ f = conversor.files[conversor.i]
            /\ Len(conversor.ok) = conversor.i
            /\ conversor.ok[conversor.i]
       /\ \A k \in DOMAIN conversor'.ok :
            ~conversor'.ok[k] => conversor'.files[k] \in conversor'.fuentes
       /\ ~conversor.delete_source =>
            conversor'.fuentes = {conversor.files[k] : k \in DOMAIN conversor.files}]_vars

\* A run with --delete-source ended: the source of a conversion that
\* succeeded is gone and the source of one that failed is still there.
C25_Witness ==
    /\ conversor.pc = "fin"
    /\ conversor.delete_source
    /\ \E k, m \in DOMAIN conversor.ok :
        /\ conversor.ok[k]
        /\ conversor.files[k] \notin conversor.fuentes
        /\ ~conversor.ok[m]
        /\ conversor.files[m] \in conversor.fuentes

====
